---- MODULE Spec2Model ----
(***************************************************************************)
(* The deprovisioning controller of karpenter-core: one Reconcile tick of  *)
(* pkg/controllers/deprovisioning/controller.go, the command executor it   *)
(* calls, and SingleNodeConsolidation.ComputeCommand.                      *)
(*                                                                         *)
(* The API server, the cluster-state cache, the provisioner and the        *)
(* strategies whose code is behind the Deprovisioner interface are the     *)
(* environment: every call into them returns one of the results its        *)
(* signature allows, chosen nondeterministically.                          *)
(*                                                                         *)
(* One behaviour of Spec is one tick.  The metrics counters and the events *)
(* other than TerminatingNode only leave the controller and are not        *)
(* tracked.                                                                *)
(*                                                                         *)
(* SpecWait is waitForDeletion of a delete command with all 60 attempts of *)
(* waitRetryOptions.  SpecEvents is the event recorder that the suite of   *)
(* src/unnamed/part_000 drives: its dedupe and the token bucket of         *)
(* NominatePod.                                                            *)
(***************************************************************************)
EXTENDS Integers, Sequences, FiniteSets, TLC

\* ---------------------------------------------------------------- bounds
\* number of nodes the cluster holds when the tick starts
MaxNodes == 2
\* largest number of replacement nodes a replace command asks for
MaxReplace == 2
\* retry.Attempts of waitRetryOptions, scaled down (the code uses 60)
MaxAttempts == 2
\* longest candidate list SingleNodeConsolidation iterates over
MaxCandidates == 2
\* entities whose events are published more than once, per reason
MaxEntities == 1
\* NominatePod events the dedupe lets through (more than the burst)
MaxNominations == 12
\* EvictPod events the dedupe lets through
MaxEvictions == 3
\* events the dedupe swallows
MaxRepeats == 2
\* latest instant of the clock and of a creation timestamp
MaxTime == 4
\* longest TTLAfterNotRegistered
MaxTTL == 2

OldNodes == 1..MaxNodes

\* ------------------------------------------------------------- constants
\* a wrong order: Drift ahead of Expiration
deprovisionersSwapped ==
  << "Drift", "Expiration", "Emptiness", "EmptyNodeConsolidation",
     "MultiNodeConsolidation", "SingleNodeConsolidation" >>

\* the strategies in the order NewController builds them
deprovisioners ==
  << "Expiration", "Drift", "Emptiness", "EmptyNodeConsolidation",
     "MultiNodeConsolidation", "SingleNodeConsolidation" >>

actionDoNothing == "doNothing"
actionRetry == "retry"
actionDelete == "delete"
actionReplace == "replace"

NoCommand == [action |-> "none", nodesToRemove |-> << >>, replacementNodes |-> 0]

VARIABLES
  node,          \* API server: node name -> [exists, unschedulable, deleting]
  initialized,   \* API server: replacement nodes carrying the initialized label
  marked,        \* cluster state: names marked for deletion
  consolidated,  \* cluster state: the consolidated flag
  ctxDone,       \* the reconcile context has been cancelled
  pc,            \* position of the controller inside Reconcile
  d,             \* index into deprovisioners of the strategy being consulted
  evals,         \* SingleNodeConsolidation.ComputeCommand: the sorted candidates
  evaluated,     \* ... and how many of them the loop looked at
  cmd,           \* the command ComputeCommand returned
  result,        \* what Reconcile returned: none, requeue, requeueAfter, error
  i,             \* loop index of the executor's current loop
  multiErr,      \* setNodesUnschedulable: an error has been appended
  nodeNames,     \* names LaunchMachines returned
  worker,        \* readiness waiters: index -> [st, attempt]
  attempt,       \* waitForDeletion: polls made for the current node
  polled,        \* waitForDeletion: what its latest poll returned
  execErr,       \* what executeCommand returned: none, ok, or the failing step
  consulted,     \* history: strategies consulted in this tick, in order
  acted,         \* history: strategies consulted that neither had no candidates
                 \*          nor returned doNothing
  raised,        \* history: errCandidateNodeDeleting was raised in this tick
  executed,      \* history: strategies whose command was handed to executeCommand
  log,           \* history: the executor's calls, in order
  cache,         \* recorder: the (reason, UID) keys inside the dedupe window
  tokens,        \* recorder: tokens in the bucket of PodNominationRateLimiter
  calls,         \* InternalRecorder: reason -> events that reached it
  emitted,       \* history: key -> events of it that went downstream in the window
  distinct,      \* history: reason -> publishes that the dedupe let through
  repeats,       \* history: publishes that the dedupe swallowed
  thisSecond,    \* history: NominatePod events offered to the bucket this second
  paced,         \* history: no second so far was offered more than Rate of them
  elapsed,       \* history: time has passed since the recorder was made
  machine,       \* the Machine: [exists, deleting, registered, creation]
  now,           \* Liveness: what clock.Now() returns
  ttl,           \* settings: TTLAfterNotRegistered
  lcall,         \* history: what the latest Liveness.Reconcile was given
  lres           \* history: what it returned and did

vars == << node, initialized, marked, consolidated, ctxDone, pc, d, evals,
           evaluated, cmd, result, i, multiErr, nodeNames, worker, attempt,
           polled, execErr, consulted, acted, raised, executed, log, cache,
           tokens, calls, emitted, distinct, repeats, thisSecond, paced, elapsed,
           machine, now, ttl, lcall, lres >>

cluster == << node, initialized, marked, consolidated >>
executor == << i, multiErr, nodeNames, worker, attempt, polled, execErr, log >>
history == << consulted, acted, raised, executed >>
recorder == << cache, tokens, calls, emitted, distinct, repeats, thisSecond,
              paced, elapsed >>
liveness == << machine, now, ttl, lcall, lres >>
deprovisioning == << node, initialized, marked, consolidated, ctxDone, pc, d,
                    evals, evaluated, cmd, result, i, multiErr, nodeNames,
                    worker, attempt, polled, execErr, consulted, acted, raised,
                    executed, log >>

\* ------------------------------------------------------------- helpers
Min(S) == CHOOSE x \in S : \A y \in S : x <= y

RECURSIVE SortedSeq(_)
SortedSeq(S) == IF S = {} THEN << >>
                ELSE << Min(S) >> \o SortedSeq(S \ {Min(S)})

Range(s) == { s[k] : k \in 1..Len(s) }

Entry(op, n, res) == [op |-> op, node |-> n, res |-> res]

Ops(o) == { k \in 1..Len(log) : log[k].op = o }

IdleWorkers == [k \in 1..MaxReplace |-> [st |-> "idle", attempt |-> 0]]

\* nodes the cluster state offers as candidates: alive and not marked
Eligible == { n \in OldNodes : node[n].exists /\ ~node[n].deleting /\ n \notin marked }

\* ------------------------------------------- SingleNodeConsolidation
\* What computeConsolidation and IsValid return for one candidate:
\*   computeErr / candidateDeleting : computeConsolidation returned an error
\*   doNothing / retry              : it returned that action
\*   validErr                       : IsValid returned an error
\*   invalid                        : IsValid returned false
\*   delete / replace               : IsValid returned true for that command
EvalKinds == { "computeErr", "candidateDeleting", "doNothing", "retry",
               "validErr", "invalid", "delete", "replace" }

ComputeFailed(e) == e.kind \in {"computeErr", "candidateDeleting"}
ComputedAction(e) == IF e.kind \in {"doNothing", "retry", "delete", "replace"}
                     THEN e.kind
                     ELSE IF e.kind = "validErr" \/ e.kind = "invalid"
                          THEN e.action ELSE "none"
ValidationFailed(e) == e.kind = "validErr"
IsValid(e) == e.kind \in {"delete", "replace"}

\* the loop without `failedValidation = true`
RECURSIVE CandidateLoopForgets(_, _, _)
CandidateLoopForgets(cands, k, failedValidation) ==
  IF k > Len(cands)
  THEN [action |-> IF failedValidation THEN actionRetry ELSE actionDoNothing,
        idx |-> 0, evaluated |-> Len(cands), err |-> FALSE]
  ELSE LET e == cands[k] IN
       IF IsValid(e) /\ ComputedAction(e) \in {actionReplace, actionDelete}
       THEN [action |-> ComputedAction(e), idx |-> k, evaluated |-> k,
             err |-> FALSE]
       ELSE CandidateLoopForgets(cands, k + 1, failedValidation)

\* the loop returning the computed command without asking IsValid
RECURSIVE CandidateLoopUnvalidated(_, _, _)
CandidateLoopUnvalidated(cands, k, failedValidation) ==
  IF k > Len(cands)
  THEN [action |-> IF failedValidation THEN actionRetry ELSE actionDoNothing,
        idx |-> 0, evaluated |-> Len(cands), err |-> FALSE]
  ELSE LET e == cands[k] IN
       IF ComputeFailed(e) THEN CandidateLoopUnvalidated(cands, k + 1, failedValidation)
       ELSE IF ComputedAction(e) \in {actionReplace, actionDelete}
            THEN [action |-> ComputedAction(e), idx |-> k, evaluated |-> k,
                  err |-> FALSE]
       ELSE CandidateLoopUnvalidated(cands, k + 1, failedValidation)

\* the loop over the sorted candidates (part_001 lines 53-84)
RECURSIVE CandidateLoop(_, _, _)
CandidateLoop(cands, k, failedValidation) ==
  IF k > Len(cands)
  THEN [action |-> IF failedValidation THEN actionRetry ELSE actionDoNothing,
        idx |-> 0, evaluated |-> Len(cands), err |-> FALSE]
  ELSE LET e == cands[k] IN
       IF ComputeFailed(e) THEN CandidateLoop(cands, k + 1, failedValidation)
       ELSE IF ComputedAction(e) \in {actionDoNothing, actionRetry}
            THEN CandidateLoop(cands, k + 1, failedValidation)
       ELSE IF ValidationFailed(e) THEN CandidateLoop(cands, k + 1, failedValidation)
       ELSE IF ~IsValid(e) THEN CandidateLoop(cands, k + 1, TRUE)
       ELSE IF ComputedAction(e) \in {actionReplace, actionDelete}
            THEN [action |-> ComputedAction(e), idx |-> k, evaluated |-> k,
                  err |-> FALSE]
       ELSE CandidateLoop(cands, k + 1, failedValidation)

\* ComputeCommand without the test of the consolidated flag
ComputeCommandIgnoresFlag(isConsolidated, sortErr, cands) ==
  IF sortErr
  THEN [action |-> "none", idx |-> 0, evaluated |-> 0, err |-> TRUE]
  ELSE CandidateLoop(cands, 1, FALSE)

\* SingleNodeConsolidation.ComputeCommand (part_001 lines 43-85)
ComputeCommand(isConsolidated, sortErr, cands) ==
  IF isConsolidated
  THEN [action |-> actionDoNothing, idx |-> 0, evaluated |-> 0, err |-> FALSE]
  ELSE IF sortErr
  THEN [action |-> "none", idx |-> 0, evaluated |-> 0, err |-> TRUE]
  ELSE CandidateLoop(cands, 1, FALSE)

\* the candidate lists sortAndFilterCandidates can hand to the loop
RECURSIVE SeqsOver(_, _)
SeqsOver(S, n) ==
  IF n = 0 THEN { << >> }
  ELSE LET shorter == SeqsOver(S, n - 1) IN
       shorter \cup { Append(s, x) : s \in { t \in shorter : Len(t) = n - 1 }, x \in S }

Evals(n) == [node : {n}, kind : EvalKinds \ {"validErr", "invalid"}, action : {"none"}]
            \cup [node : {n}, kind : {"validErr", "invalid"},
                  action : {actionDelete, actionReplace}]

CandidateLists(elig) ==
  { s \in SeqsOver(UNION { Evals(n) : n \in elig },
                   IF Cardinality(elig) < MaxCandidates
                   THEN Cardinality(elig) ELSE MaxCandidates) :
      \A a, b \in 1..Len(s) : a # b => s[a].node # s[b].node }

\* ------------------------------------------------------------ Reconcile
\* Reconcile moving on to the next strategy after a retry
DispatchRetryContinues(action) ==
  CASE action \in {actionDoNothing, actionRetry} -> "continue"
    [] OTHER                                    -> "execute"

\* Reconcile handing a retry command to executeCommand
DispatchRetryExecutes(action) ==
  CASE action = actionDoNothing -> "continue"
    [] OTHER                    -> "execute"

\* what Reconcile does with the command a strategy returned (lines 127-138)
Dispatch(action) ==
  CASE action = actionDoNothing -> "continue"
    [] action = actionRetry     -> "requeue"
    [] OTHER                    -> "execute"

\* Reconcile moving on to the next strategy after a failed execution
AfterExecuteContinues(err) == IF err # "ok" THEN "continue" ELSE "requeue"

\* Reconcile asking for a requeue whatever executeCommand returned
AfterExecuteAlwaysRequeues(err) == "requeue"

\* what Reconcile does once executeCommand has returned (lines 135-138)
AfterExecute(err) == IF err # "ok" THEN "error" ELSE "requeue"

\* const pollingPeriod (line 59), in seconds
pollingPeriod == 10

\* the reconcile.Result of a return (lines 131, 138 and 143); an error is
\* returned with the empty Result
RequeueHint(res) ==
  [Requeue      |-> res = "requeue",
   RequeueAfter |-> IF res = "requeueAfter" THEN pollingPeriod ELSE 0]

\* ------------------------------------------------------- event recorder
\* The recorder of pkg/events as section 4.4 of the specification describes
\* it and as the suite of part_000 drives it: Publish drops an event whose
\* (reason, UID) key is inside the dedupe window, then asks the rate limiter
\* of the reason, if it has one, and hands the event to the recorder
\* underneath.
Reasons == {"EvictPod", "NominatePod"}

\* flowcontrol.NewTokenBucketRateLimiter(5, 10) (part_000 line 76)
Rate == 5

\* a bucket that holds one second of tokens
BurstOfRate == Rate

Burst == 10

\* PodWithUID(): an entity with a UID nobody has seen (part_000 lines 132-142)
NewUID == 0
TrackedUIDs == 1..MaxEntities

Keys == Reasons \X TrackedUIDs

RateLimited(reason) == reason = "NominatePod"

\* the dedupe letting every event through
ShouldCreateEventAlways(key, c) == TRUE

ShouldCreateEvent(key, c) == key \notin c

\* the token bucket: an event takes a token or is dropped
TryAccept(t) == t > 0

Refill(t, seconds) == Min({Burst, t + Rate * seconds})

\* InternalRecorder.Event (part_000 lines 48-52)
Event(c, reason) == [c EXCEPT ![reason] = @ + 1]

\* events.NewRecorder(internalRecorder) (part_000 lines 73-77)
NewRecorder ==
  /\ cache = {}
  /\ tokens = Burst
  /\ calls = [r \in Reasons |-> 0]
  /\ emitted = [k \in Keys |-> 0]
  /\ distinct = [r \in Reasons |-> 0]
  /\ repeats = 0
  /\ thisSecond = 0
  /\ paced = TRUE
  /\ elapsed = FALSE

\* ------------------------------------------------------ machine liveness
\* settings.TTLAfterNotRegistered == nil (liveness.go line 34)
NoTTL == -1

\* status of the MachineRegistered condition; absent: GetCondition gives nil
Conditions == {"absent", "True", "False", "Unknown"}

\* Condition.IsTrue, which is false for the nil condition
IsTrue(condition) == condition = "True"

\* metav1.Time.IsZero: time 0 is the zero time
IsZero(t) == t = 0

\* a machine that is expired at the very instant its TTL ends
BeforeOrAt(a, b) == a <= b

\* time.Time.Before
Before(a, b) == a < b

\* client.IgnoreNotFound
IgnoreNotFound(err) == IF err = "notFound" THEN "nil" ELSE err

\* the branch Liveness.Reconcile takes (liveness.go lines 34-44)
LivenessBranch(t, m, n) ==
  IF t = NoTTL THEN "return"
  ELSE IF ~IsTrue(m.registered)
       THEN IF ~IsZero(m.creation) /\ Before(m.creation + t, n)
            THEN "delete"
            ELSE "requeue"
       ELSE "return"

NoCall == [made |-> FALSE, ttl |-> NoTTL, registered |-> "absent",
           creation |-> 0, now |-> 0]
NoResult == [deleteErr |-> "none", requeueAfter |-> 0, err |-> FALSE,
             touched |-> FALSE]

\* the specifications of the other controllers have no machine
NoMachine ==
  /\ machine = [exists |-> FALSE, deleting |-> FALSE, registered |-> "absent",
                creation |-> 0]
  /\ now = 0
  /\ ttl = NoTTL
  /\ lcall = NoCall
  /\ lres = NoResult

\* the deprovisioning controller when a tick starts
TickStarts ==
  /\ node = [n \in OldNodes |-> [exists |-> TRUE, unschedulable |-> FALSE,
                                 deleting |-> FALSE]]
  /\ initialized = {}
  /\ marked = {}
  /\ consolidated \in BOOLEAN
  /\ ctxDone = FALSE
  /\ pc = "select"
  /\ d = 1
  /\ evals = << >>
  /\ evaluated = 0
  /\ cmd = NoCommand
  /\ result = "none"
  /\ i = 0
  /\ multiErr = FALSE
  /\ nodeNames = << >>
  /\ worker = IdleWorkers
  /\ attempt = 0
  /\ polled = "none"
  /\ execErr = "none"
  /\ consulted = << >>
  /\ acted = {}
  /\ raised = FALSE
  /\ executed = << >>
  /\ log = << >>

Init ==
  /\ NewRecorder
  /\ NoMachine
  /\ TickStarts

\* `return reconcile.Result{...}, err`
Return(res) ==
  /\ pc' = "done"
  /\ result' = res
  /\ UNCHANGED d

\* `continue`: on to the next deprovisioner
Continue ==
  /\ pc' = "select"
  /\ d' = d + 1
  /\ UNCHANGED result

\* candidateNodes failed (lines 113-116)
SelectError ==
  /\ pc = "select" /\ d <= Len(deprovisioners)
  /\ \E deleting \in BOOLEAN : raised' = deleting
  /\ consulted' = Append(consulted, deprovisioners[d])
  /\ acted' = acted \cup {deprovisioners[d]}
  /\ Return("error")
  /\ UNCHANGED << cluster, ctxDone, recorder, liveness, evals, evaluated, cmd, executor, executed >>

\* candidateNodes found nothing (lines 117-120)
NoCandidates ==
  /\ pc = "select" /\ d <= Len(deprovisioners)
  /\ consulted' = Append(consulted, deprovisioners[d])
  /\ Continue
  /\ UNCHANGED << cluster, ctxDone, recorder, liveness, evals, evaluated, cmd, executor, acted,
                  raised, executed >>

\* a strategy behind the Deprovisioner interface computes its command
\* (lines 113-126)
Compute ==
  /\ pc = "select" /\ d <= Len(deprovisioners)
  /\ deprovisioners[d] # "SingleNodeConsolidation"
  /\ Eligible # {}
  /\ consulted' = Append(consulted, deprovisioners[d])
  /\ \/ /\ Return("error")
        /\ UNCHANGED << cmd >>
     \/ /\ \E a \in {actionDoNothing, actionRetry} :
             cmd' = [NoCommand EXCEPT !.action = a]
        /\ pc' = "computed"
        /\ UNCHANGED << result, d >>
     \/ /\ \E S \in SUBSET Eligible \ {{}} :
             \/ cmd' = [action |-> actionDelete, nodesToRemove |-> SortedSeq(S),
                        replacementNodes |-> 0]
             \/ \E k \in 1..MaxReplace :
                  cmd' = [action |-> actionReplace, nodesToRemove |-> SortedSeq(S),
                          replacementNodes |-> k]
        /\ pc' = "computed"
        /\ UNCHANGED << result, d >>
  /\ acted' = IF pc' = "computed" /\ cmd'.action = actionDoNothing
              THEN acted ELSE acted \cup {deprovisioners[d]}
  /\ UNCHANGED << cluster, ctxDone, recorder, liveness, evals, evaluated, executor, raised,
                  executed >>

\* SingleNodeConsolidation computes its command (lines 113-126 and part_001)
ComputeSingle ==
  /\ pc = "select" /\ d <= Len(deprovisioners)
  /\ deprovisioners[d] = "SingleNodeConsolidation"
  /\ Eligible # {}
  /\ consulted' = Append(consulted, deprovisioners[d])
  /\ \E sortErr \in BOOLEAN, cands \in CandidateLists(Eligible), k \in 1..MaxReplace :
       LET r == ComputeCommand(consolidated, sortErr, cands) IN
       /\ evals' = cands
       /\ evaluated' = r.evaluated
       /\ acted' = IF ~r.err /\ r.action = actionDoNothing
                   THEN acted ELSE acted \cup {deprovisioners[d]}
       /\ IF r.err
          THEN /\ Return("error")
               /\ UNCHANGED cmd
          ELSE /\ pc' = "computed"
               /\ cmd' = [action |-> r.action,
                          nodesToRemove |-> IF r.idx = 0 THEN << >>
                                            ELSE << cands[r.idx].node >>,
                          replacementNodes |-> IF r.action = actionReplace
                                               THEN k ELSE 0]
               /\ UNCHANGED << result, d >>
  /\ UNCHANGED << cluster, ctxDone, recorder, liveness, executor, raised, executed >>

\* Reconcile acts on the command (lines 127-135)
Decide ==
  /\ pc = "computed"
  /\ evals' = << >>
  /\ evaluated' = 0
  /\ LET next == Dispatch(cmd.action) IN
       CASE next = "continue" ->
              /\ Continue
              /\ cmd' = NoCommand
              /\ UNCHANGED << executed, i >>
         [] next = "requeue" ->
              /\ Return("requeue")
              /\ UNCHANGED << cmd, executed, i >>
         [] OTHER ->
              /\ executed' = Append(executed, deprovisioners[d])
              /\ pc' = IF cmd.action = actionReplace THEN "cordon" ELSE "delete"
              /\ i' = 1
              /\ UNCHANGED << d, cmd, result >>
  /\ UNCHANGED << cluster, ctxDone, recorder, liveness, polled, multiErr, nodeNames, worker, attempt,
                  execErr, consulted, acted, raised, log >>

\* every deprovisioner did nothing (lines 141-143)
AllDidNothing ==
  /\ pc = "select" /\ d > Len(deprovisioners)
  /\ consolidated' = TRUE
  /\ log' = Append(log, Entry("SetConsolidated", 0, "ok"))
  /\ pc' = "done"
  /\ result' = "requeueAfter"
  /\ UNCHANGED << node, initialized, marked, ctxDone, recorder, liveness, polled, d, evals, evaluated, cmd,
                  i, multiErr, nodeNames, worker, attempt, execErr, history >>

\* ------------------------------------------------------------- executor
\* executeCommand returns err and Reconcile acts on it (lines 135-138)
Executed(err) ==
  /\ execErr' = err
  /\ LET next == AfterExecute(err) IN
       CASE next = "error"   -> Return("error")
         [] next = "requeue" -> Return("requeue")
         [] OTHER            -> Continue

ZeroNode == [exists |-> FALSE, unschedulable |-> FALSE, deleting |-> FALSE]

\* the loop body with the deletion check inverted: a node that is not being
\* deleted is never un-cordoned
SetNodeUnschedulableInverted(n, isUnschedulable, getOk, patchOk) ==
  LET got == getOk /\ node[n].exists
      seen == IF got THEN node[n] ELSE ZeroNode
  IN  IF ~isUnschedulable /\ ~seen.deleting
      THEN [node |-> node[n], err |-> ~got, res |-> IF got THEN "skipped" ELSE "getFailed"]
      ELSE IF seen.unschedulable = isUnschedulable
      THEN [node |-> node[n], err |-> ~got, res |-> IF got THEN "skipped" ELSE "getFailed"]
      ELSE IF got /\ patchOk
      THEN [node |-> [node[n] EXCEPT !.unschedulable = isUnschedulable],
            err |-> FALSE, res |-> "patched"]
      ELSE [node |-> node[n], err |-> TRUE,
            res |-> IF got THEN "patchFailed" ELSE "getFailed"]

\* one iteration of the loop of setNodesUnschedulable (lines 260-281):
\* the node as patched, whether an error was appended, and the Patch made
SetNodeUnschedulable(n, isUnschedulable, getOk, patchOk) ==
  LET got == getOk /\ node[n].exists
      seen == IF got THEN node[n] ELSE ZeroNode
  IN  IF ~isUnschedulable /\ seen.deleting
      THEN [node |-> node[n], err |-> ~got, res |-> IF got THEN "skipped" ELSE "getFailed"]
      ELSE IF seen.unschedulable = isUnschedulable
      THEN [node |-> node[n], err |-> ~got, res |-> IF got THEN "skipped" ELSE "getFailed"]
      ELSE IF got /\ patchOk
      THEN [node |-> [node[n] EXCEPT !.unschedulable = isUnschedulable],
            err |-> FALSE, res |-> "patched"]
      ELSE [node |-> node[n], err |-> TRUE,
            res |-> IF got THEN "patchFailed" ELSE "getFailed"]

\* the history entry of one iteration: nothing when the node needed no patch
PatchLog(op, n, r) ==
  IF r.res = "skipped" THEN << >> ELSE << Entry(op, n, r.res) >>

\* launchReplacementNodes ignoring the error of the cordon loop
AfterCordonIgnoresError(err) == "launch"

\* what launchReplacementNodes does once the cordon loop is over
\* (lines 205-207)
AfterCordon(err) == IF err THEN "fail" ELSE "launch"

\* launchReplacementNodes cordons the old nodes (lines 203-207)
Cordon ==
  /\ pc = "cordon" /\ i <= Len(cmd.nodesToRemove)
  /\ \E getOk, patchOk \in BOOLEAN :
       LET n == cmd.nodesToRemove[i]
           r == SetNodeUnschedulable(n, TRUE, getOk, patchOk)
           failed == multiErr \/ r.err
       IN  /\ node' = [node EXCEPT ![n] = r.node]
           /\ log' = log \o PatchLog("Cordon", n, r)
           /\ IF i < Len(cmd.nodesToRemove)
              THEN /\ i' = i + 1
                   /\ multiErr' = failed
                   /\ UNCHANGED << pc, d, result, execErr >>
              ELSE /\ i' = 0
                   /\ multiErr' = FALSE
                   /\ IF AfterCordon(failed) = "fail"
                      THEN Executed("cordon")
                      ELSE /\ pc' = "launch"
                           /\ UNCHANGED << d, result, execErr >>
  /\ UNCHANGED << initialized, marked, consolidated, ctxDone, recorder, liveness, polled, evals, evaluated,
                  cmd, nodeNames, worker, attempt, history >>

\* launchReplacementNodes returning a launch error without the un-cordon
AfterLaunchNoUncordon(launchErr, returned, requested) ==
  IF launchErr THEN "fail"
  ELSE IF returned # requested THEN "fail"
  ELSE "mark"

\* launchReplacementNodes waiting without MarkForDeletion
AfterLaunchNoMark(launchErr, returned, requested) ==
  IF launchErr THEN "uncordon"
  ELSE IF returned # requested THEN "fail"
  ELSE "wait"

\* launchReplacementNodes going on with the names it got, however many
AfterLaunchIgnoresCount(launchErr, returned, requested) ==
  IF launchErr THEN "uncordon" ELSE "mark"

\* what launchReplacementNodes does with the result of LaunchMachines
\* (lines 209-222): un-cordon and fail, fail, or mark and wait
AfterLaunch(launchErr, returned, requested) ==
  IF launchErr THEN "uncordon"
  ELSE IF returned # requested THEN "fail"
  ELSE "mark"

\* launchReplacementNodes launches the replacements (lines 209-222)
Launch ==
  /\ pc = "launch"
  /\ \E launchErr \in BOOLEAN, returned \in 0..MaxReplace :
       LET next == AfterLaunch(launchErr, returned, cmd.replacementNodes) IN
       /\ launchErr => returned = 0
       /\ log' = Append(log, Entry("Launch", returned,
                                   IF launchErr THEN "failed" ELSE "ok"))
               \o IF next = "mark" THEN << Entry("Mark", 0, "ok") >> ELSE << >>
       /\ nodeNames' = [k \in 1..returned |-> k]
       /\ marked' = IF next = "mark" THEN marked \cup Range(cmd.nodesToRemove)
                    ELSE marked
       /\ CASE next = "uncordon" ->
                 /\ pc' = "uncordon"
                 /\ execErr' = "launch"
                 /\ UNCHANGED << d, result >>
            [] next = "fail" -> Executed("count")
            [] OTHER ->
                 /\ pc' = "wait"
                 /\ UNCHANGED << d, result, execErr >>
       /\ i' = IF next = "uncordon" THEN 1 ELSE 0
  /\ UNCHANGED << node, initialized, consolidated, ctxDone, recorder, liveness, polled, evals, evaluated,
                  cmd, multiErr, worker, attempt, history >>

\* ParallelizeUntil hands piece k to a worker unless the context is done
\* (line 226)
StartPiece(cancelled) == IF cancelled THEN "skipped" ELSE "running"

WorkerStart(k) ==
  /\ pc = "wait" /\ k \in 1..Len(nodeNames)
  /\ worker[k].st = "idle"
  /\ worker' = [worker EXCEPT ![k].st = StartPiece(ctxDone)]
  /\ UNCHANGED << cluster, ctxDone, recorder, liveness, polled, pc, d, evals, evaluated, cmd, result, i,
                  multiErr, nodeNames, attempt, execErr, log, history >>

\* one attempt of the retried readiness check (lines 230-244)
NodeReady(getOk, hasLabel) == getOk /\ hasLabel

WorkerPoll(k) ==
  /\ pc = "wait" /\ k \in 1..Len(nodeNames)
  /\ worker[k].st = "running"
  /\ \E getOk \in BOOLEAN :
       IF NodeReady(getOk, nodeNames[k] \in initialized)
       THEN /\ worker' = [worker EXCEPT ![k] = [st |-> "ok", attempt |-> 0]]
            /\ log' = Append(log, Entry("Observed", nodeNames[k], "ok"))
       ELSE /\ worker' = [worker EXCEPT ![k] =
                            IF worker[k].attempt + 1 >= MaxAttempts
                            THEN [st |-> "err", attempt |-> 0]
                            ELSE [st |-> "running", attempt |-> @.attempt + 1]]
            /\ UNCHANGED log
  /\ UNCHANGED << cluster, ctxDone, recorder, liveness, polled, pc, d, evals, evaluated, cmd, result, i,
                  multiErr, nodeNames, attempt, execErr, history >>

\* multierr.Combine(errs...) over the waiters' errors (line 249)
ReadinessFailed(w, n) == \E k \in 1..n : w[k].st = "err"

\* every piece has returned (lines 249-255)
Waited ==
  /\ pc = "wait"
  /\ \A k \in 1..Len(nodeNames) : worker[k].st \in {"ok", "err", "skipped"}
  /\ IF ReadinessFailed(worker, Len(nodeNames))
     THEN /\ marked' = marked \ Range(cmd.nodesToRemove)
          /\ log' = Append(log, Entry("Unmark", 0, "ok"))
          /\ pc' = "uncordon"
          /\ execErr' = "ready"
     ELSE /\ pc' = "delete"
          /\ UNCHANGED << marked, log, execErr >>
  /\ i' = 1
  /\ nodeNames' = << >>
  /\ worker' = IdleWorkers
  /\ UNCHANGED << node, initialized, consolidated, ctxDone, recorder, liveness, polled, d, evals, evaluated,
                  cmd, result, multiErr, attempt, history >>

\* launchReplacementNodes un-cordons the old nodes and returns the error
\* (lines 212-213 and 252-253)
Uncordon ==
  /\ pc = "uncordon" /\ i <= Len(cmd.nodesToRemove)
  /\ \E getOk, patchOk \in BOOLEAN :
       LET n == cmd.nodesToRemove[i]
           r == SetNodeUnschedulable(n, FALSE, getOk, patchOk)
       IN  /\ node' = [node EXCEPT ![n] = r.node]
           /\ log' = log \o PatchLog("Uncordon", n, r)
           /\ IF i < Len(cmd.nodesToRemove)
              THEN /\ i' = i + 1
                   /\ UNCHANGED << pc, d, result, execErr >>
              ELSE /\ i' = 0
                   /\ Executed(execErr)
  /\ UNCHANGED << initialized, marked, consolidated, ctxDone, recorder, liveness, polled, evals, evaluated,
                  cmd, multiErr, nodeNames, worker, attempt, history >>

\* the calls the delete loop makes for one node, in order (lines 159-163)
DeleteCallsNoEvent(n, deleted) ==
  << Entry("Delete", n, IF deleted THEN "ok" ELSE "failed") >>

DeleteCalls(n, deleted) ==
  << Entry("TerminatingNode", n, "ok"),
     Entry("Delete", n, IF deleted THEN "ok" ELSE "failed") >>

\* executeCommand deletes the old nodes (lines 158-165)
Delete ==
  /\ pc = "delete" /\ i <= Len(cmd.nodesToRemove)
  /\ \E deleteOk \in BOOLEAN :
       LET n == cmd.nodesToRemove[i]
           deleted == deleteOk /\ node[n].exists
       IN  /\ node' = IF deleted THEN [node EXCEPT ![n].deleting = TRUE] ELSE node
           /\ log' = log \o DeleteCalls(n, deleted)
  /\ IF i < Len(cmd.nodesToRemove)
     THEN /\ i' = i + 1
          /\ UNCHANGED pc
     ELSE /\ i' = 1
          /\ pc' = "waitForDeletion"
  /\ attempt' = 0
  /\ UNCHANGED << initialized, marked, consolidated, ctxDone, recorder, liveness, polled, d, evals,
                  evaluated, cmd, result, multiErr, nodeNames, worker, execErr,
                  history >>

\* one attempt of the retried Get of waitForDeletion (lines 179-193)
IsNotFound(getErr, exists) == ~getErr /\ ~exists

\* retry.Do polling on although the Get returned not-found
PollingOverIgnoresNotFound(gone, made, attempts) == made >= attempts

\* retry.Do stops at the first nil and after the last attempt (lines 179-193)
PollingOver(gone, made, attempts) == gone \/ made >= attempts

\* executeCommand waits for the old nodes to go (lines 169-172, 178-197),
\* with retry.Attempts(attempts)
WaitForDeletionOf(attempts) ==
  /\ pc = "waitForDeletion" /\ i <= Len(cmd.nodesToRemove)
  /\ \E getErr \in BOOLEAN :
       LET n == cmd.nodesToRemove[i]
           gone == IsNotFound(getErr, node[n].exists)
       IN  /\ polled' = IF gone THEN "notFound" ELSE "pending"
           /\ IF ~PollingOver(gone, attempt + 1, attempts)
              THEN /\ attempt' = attempt + 1
                   /\ UNCHANGED << i, pc, d, result, execErr >>
              ELSE /\ attempt' = 0
                   /\ IF i < Len(cmd.nodesToRemove)
                      THEN /\ i' = i + 1
                           /\ UNCHANGED << pc, d, result, execErr >>
                      ELSE /\ i' = 0
                           /\ Executed("ok")
  /\ UNCHANGED << cluster, ctxDone, recorder, liveness, evals, evaluated, cmd, multiErr, nodeNames,
                  worker, log, history >>

WaitForDeletion == WaitForDeletionOf(MaxAttempts)

\* ---------------------------------------------------------- environment
\* the reconciler runtime cancels the context.  Only ParallelizeUntil reads
\* it, and only when it hands out a piece: a cancellation earlier in the tick
\* is the same as one at the start of the wait, and a later one changes
\* nothing
Cancel ==
  /\ pc = "wait" /\ ~ctxDone
  /\ \E k \in 1..Len(nodeNames) : worker[k].st = "idle"
  /\ ctxDone' = TRUE
  /\ UNCHANGED << cluster, recorder, liveness, pc, d, evals, evaluated, cmd, result, executor,
                  history >>

\* a launched node registers and gets the initialized label (the label is
\* read only by the readiness waiters)
NodeInitialized ==
  /\ pc = "wait"
  /\ \E k \in Range(nodeNames) \ initialized : initialized' = initialized \cup {k}
  /\ UNCHANGED << node, marked, consolidated, ctxDone, recorder, liveness, pc, d, evals, evaluated,
                  cmd, result, executor, history >>

\* somebody else deletes a node: the API server sets its deletion timestamp.
\* The timestamp is read by the un-cordon loop and the removal it leads to by
\* waitForDeletion; a Get or a Patch earlier in the tick fails on its own.
\* The executor reads the nodes of its command only
NodeDeleting ==
  /\ pc \in {"uncordon", "delete", "waitForDeletion"}
  /\ \E n \in Range(cmd.nodesToRemove) :
       /\ node[n].exists /\ ~node[n].deleting
       /\ node' = [node EXCEPT ![n].deleting = TRUE]
  /\ UNCHANGED << initialized, marked, consolidated, ctxDone, recorder, liveness, pc, d, evals,
                  evaluated, cmd, result, executor, history >>

\* a deleting node has drained and the API server drops it
NodeRemoved ==
  /\ pc \in {"uncordon", "delete", "waitForDeletion"}
  /\ \E n \in Range(cmd.nodesToRemove) :
       /\ node[n].exists /\ node[n].deleting
       /\ node' = [node EXCEPT ![n] = ZeroNode]
  /\ UNCHANGED << initialized, marked, consolidated, ctxDone, recorder, liveness, pc, d, evals,
                  evaluated, cmd, result, executor, history >>

\* the informers saw the cluster change and cleared the consolidated flag
ClusterChanged ==
  /\ pc # "done" /\ consolidated
  /\ consolidated' = FALSE
  /\ UNCHANGED << node, initialized, marked, ctxDone, recorder, liveness, pc, d, evals, evaluated,
                  cmd, result, executor, history >>

Next ==
  \/ SelectError
  \/ NoCandidates
  \/ Compute
  \/ ComputeSingle
  \/ Decide
  \/ AllDidNothing
  \/ Cordon
  \/ Launch
  \/ \E k \in 1..MaxReplace : WorkerStart(k)
  \/ \E k \in 1..MaxReplace : WorkerPoll(k)
  \/ Waited
  \/ Uncordon
  \/ Delete
  \/ WaitForDeletion
  \/ Cancel
  \/ NodeInitialized
  \/ NodeDeleting
  \/ NodeRemoved
  \/ ClusterChanged

Spec == Init /\ [][Next]_vars

\* ---------------------------------------------- waitForDeletion in full
\* retry.Attempts(60) (line 69).  Spec scales the attempts down to
\* MaxAttempts; SpecWait runs the wait of a delete command with all of them.
Attempts == 60

RECURSIVE DeleteLoopCalls(_, _)
DeleteLoopCalls(nodes, deleted) ==
  IF nodes = << >> THEN << >>
  ELSE DeleteCalls(Head(nodes), Head(nodes) \in deleted)
         \o DeleteLoopCalls(Tail(nodes), deleted)

\* executeCommand has left the delete loop of a delete command of the first
\* deprovisioner: the nodes whose Delete went through are being deleted
InitWait ==
  \E S \in (SUBSET OldNodes) \ {{}} : \E deleted \in SUBSET S :
    /\ NewRecorder
    /\ NoMachine
    /\ node = [n \in OldNodes |-> [exists |-> TRUE, unschedulable |-> FALSE,
                                   deleting |-> n \in deleted]]
    /\ initialized = {}
    /\ marked = {}
    /\ consolidated = FALSE
    /\ ctxDone = FALSE
    /\ pc = "waitForDeletion"
    /\ d = 1
    /\ evals = << >>
    /\ evaluated = 0
    /\ cmd = [action |-> actionDelete, nodesToRemove |-> SortedSeq(S),
              replacementNodes |-> 0]
    /\ result = "none"
    /\ i = 1
    /\ multiErr = FALSE
    /\ nodeNames = << >>
    /\ worker = IdleWorkers
    /\ attempt = 0
    /\ polled = "none"
    /\ execErr = "none"
    /\ consulted = << deprovisioners[1] >>
    /\ acted = {deprovisioners[1]}
    /\ raised = FALSE
    /\ executed = << deprovisioners[1] >>
    /\ log = DeleteLoopCalls(SortedSeq(S), deleted)

WaitForDeletionFull == WaitForDeletionOf(Attempts)

NextWait ==
  \/ WaitForDeletionFull
  \/ NodeDeleting
  \/ NodeRemoved

\* retry.Do goes on to its next attempt by itself
SpecWait == InitWait /\ [][NextWait]_vars /\ WF_vars(WaitForDeletionFull)

\* ------------------------------------------------ the recorder at work
MaxDistinct(reason) ==
  IF reason = "NominatePod" THEN MaxNominations ELSE MaxEvictions

\* eventRecorder.Publish of an event with this reason about this entity
Publish(reason, uid) ==
  LET key == << reason, uid >>
      create == uid = NewUID \/ ShouldCreateEvent(key, cache)
      limited == create /\ RateLimited(reason)
      accept == create /\ (limited => TryAccept(tokens))
  IN  /\ IF create THEN distinct[reason] < MaxDistinct(reason)
                   ELSE repeats < MaxRepeats
      /\ cache' = IF create /\ uid # NewUID THEN cache \cup {key} ELSE cache
      /\ tokens' = IF limited /\ TryAccept(tokens) THEN tokens - 1 ELSE tokens
      /\ calls' = IF accept THEN Event(calls, reason) ELSE calls
      /\ emitted' = IF accept /\ uid # NewUID
                    THEN [emitted EXCEPT ![key] = @ + 1] ELSE emitted
      /\ distinct' = IF create THEN [distinct EXCEPT ![reason] = @ + 1]
                     ELSE distinct
      /\ repeats' = IF create THEN repeats ELSE repeats + 1
      /\ thisSecond' = IF limited THEN thisSecond + 1 ELSE thisSecond
      /\ UNCHANGED << paced, elapsed, deprovisioning, liveness >>

\* time.Sleep(time.Second) (part_000 line 127)
SecondPasses ==
  /\ tokens < Burst \/ thisSecond > 0 \/ ~elapsed
  /\ tokens' = Refill(tokens, 1)
  /\ paced' = (paced /\ thisSecond <= Rate)
  /\ thisSecond' = 0
  /\ elapsed' = TRUE
  /\ UNCHANGED << cache, calls, emitted, distinct, repeats, deprovisioning, liveness >>

\* the dedupe window has gone by: the keys expire and the bucket is full
WindowElapses ==
  /\ cache # {}
  /\ cache' = {}
  /\ emitted' = [k \in Keys |-> 0]
  /\ tokens' = Burst
  /\ paced' = (paced /\ thisSecond <= Rate)
  /\ thisSecond' = 0
  /\ elapsed' = TRUE
  /\ UNCHANGED << calls, distinct, repeats, deprovisioning, liveness >>

NextEvents ==
  \/ \E reason \in Reasons, uid \in {NewUID} \cup TrackedUIDs : Publish(reason, uid)
  \/ SecondPasses
  \/ WindowElapses

SpecEvents == Init /\ [][NextEvents]_vars

\* ------------------------------------------- the liveness reconciler
\* a machine, a clock and a setting for Liveness.Reconcile
InitLiveness ==
  /\ NewRecorder
  /\ TickStarts
  /\ machine \in [exists : {TRUE}, deleting : {FALSE}, registered : Conditions,
                   creation : 0..MaxTime]
  /\ now \in 0..MaxTime
  /\ ttl \in {NoTTL} \cup 0..MaxTTL
  /\ lcall = NoCall
  /\ lres = NoResult

\* Liveness.Reconcile (liveness.go lines 33-45)
LivenessReconcile ==
  \E apiErr \in BOOLEAN :
    LET branch == LivenessBranch(ttl, machine, now)
        deleteErr == IF branch # "delete" THEN "none"
                     ELSE IF ~machine.exists THEN "notFound"
                     ELSE IF apiErr THEN "error"
                     ELSE "nil"
    IN  /\ machine' = IF deleteErr = "nil"
                      THEN [machine EXCEPT !.deleting = TRUE] ELSE machine
        /\ lcall' = [made |-> TRUE, ttl |-> ttl, registered |-> machine.registered,
                     creation |-> machine.creation, now |-> now]
        /\ lres' = [deleteErr |-> deleteErr,
                    requeueAfter |-> IF branch = "requeue" THEN ttl ELSE 0,
                    err |-> branch = "delete" /\ IgnoreNotFound(deleteErr) # "nil",
                    touched |-> machine' # machine]
        /\ UNCHANGED << now, ttl, deprovisioning, recorder >>

\* time goes by
ClockAdvances ==
  /\ now < MaxTime
  /\ now' = now + 1
  /\ UNCHANGED << machine, ttl, lcall, lres, deprovisioning, recorder >>

\* the node of the machine registers
MachineRegisters ==
  /\ machine.exists /\ machine.registered # "True"
  /\ machine' = [machine EXCEPT !.registered = "True"]
  /\ UNCHANGED << now, ttl, lcall, lres, deprovisioning, recorder >>

\* the machine leaves the API server
MachineGone ==
  /\ machine.exists
  /\ machine' = [machine EXCEPT !.exists = FALSE]
  /\ UNCHANGED << now, ttl, lcall, lres, deprovisioning, recorder >>

NextLiveness ==
  \/ LivenessReconcile
  \/ ClockAdvances
  \/ MachineRegisters
  \/ MachineGone

SpecLiveness == InitLiveness /\ [][NextLiveness]_vars

TypeOK ==
  /\ pc \in {"select", "computed", "cordon", "launch", "wait", "uncordon",
             "delete", "waitForDeletion", "done"}
  /\ d \in 1..Len(deprovisioners) + 1
  /\ result \in {"none", "requeue", "requeueAfter", "error"}
  /\ execErr \in {"none", "ok", "cordon", "launch", "count", "ready"}
  /\ marked \subseteq OldNodes
  /\ consolidated \in BOOLEAN

\* ------------------------------------------------------------- properties
Returned == pc = "done"

Removed == Range(cmd.nodesToRemove)

Failure(res) == res \in {"getFailed", "patchFailed"}

\* the un-cordon of node n failed in its Get or its Patch
UncordonFailedFor(n) ==
  \E k \in Ops("Uncordon") : log[k].node = n /\ Failure(log[k].res)

\* the cordon of node n failed in its Get or its Patch
CordonFailedFor(n) ==
  \E k \in Ops("Cordon") : log[k].node = n /\ Failure(log[k].res)

CordonFailed == \E n \in OldNodes : CordonFailedFor(n)

LaunchFailed == \E k \in Ops("Launch") : log[k].res = "failed"

\* node n is still there, is not being deleted, and its un-cordon went through
Uncordonable(n) == node[n].exists /\ ~node[n].deleting /\ ~UncordonFailedFor(n)

\* C1: a replace command that executeCommand executes with success has had
\* every replacement node observed with the initialized label before the
\* first Delete of an old node was issued.
C1_ObservedBeforeDelete ==
  (Returned /\ execErr = "ok" /\ cmd.action = actionReplace) =>
    \A r \in 1..cmd.replacementNodes :
      \E j \in Ops("Observed") :
        /\ log[j].node = r
        /\ \A k \in Ops("Delete") : j < k

\* C2 as stated: after a readiness error no Delete was issued, the old nodes
\* are un-marked, and every old node is schedulable.
C2_AllSchedulableAfterReadinessError ==
  (Returned /\ execErr = "ready") =>
    /\ Ops("Delete") = {}
    /\ Removed \cap marked = {}
    /\ \A n \in Removed : ~node[n].unschedulable

\* C2 amended: after a readiness error no Delete was issued, the old nodes
\* are un-marked, and every old node that still exists, is not being deleted
\* and whose un-cordon Get and Patch succeeded is schedulable.
C2_ReadinessErrorRollsBack ==
  (Returned /\ execErr = "ready") =>
    /\ Ops("Delete") = {}
    /\ Removed \cap marked = {}
    /\ \A n \in Removed : Uncordonable(n) => ~node[n].unschedulable

C2_Witness ==
  /\ Returned /\ execErr = "ready"
  /\ \E k \in Ops("Uncordon") : log[k].res = "patched"
  /\ \A n \in Removed : node[n].exists /\ ~node[n].unschedulable

\* C3 as stated: when LaunchMachines fails, the tick ends with every old node
\* schedulable, none marked or deleted, and Reconcile returning the error.
C3_AllSchedulableAfterLaunchError ==
  (pc = "done" /\ LaunchFailed) =>
    /\ result = "error"
    /\ Ops("Delete") = {} /\ Ops("Mark") = {}
    /\ Removed \cap marked = {}
    /\ \A n \in Removed : ~node[n].unschedulable

\* C3 amended: when LaunchMachines fails, the tick ends with Reconcile
\* returning the error, no old node marked or deleted, and every old node
\* that still exists, is not being deleted and whose un-cordon Get and Patch
\* succeeded schedulable.
C3_LaunchErrorRollsBack ==
  (pc = "done" /\ LaunchFailed) =>
    /\ result = "error"
    /\ Ops("Delete") = {} /\ Ops("Mark") = {}
    /\ Removed \cap marked = {}
    /\ \A n \in Removed : Uncordonable(n) => ~node[n].unschedulable

C3_Witness ==
  /\ pc = "done" /\ LaunchFailed /\ result = "error"
  /\ \A n \in Removed :
       /\ node[n].exists /\ ~node[n].unschedulable
       /\ \E k \in Ops("Uncordon") : log[k].node = n /\ log[k].res = "patched"

ExpectedOrder ==
  << "Expiration", "Drift", "Emptiness", "EmptyNodeConsolidation",
     "MultiNodeConsolidation", "SingleNodeConsolidation" >>

\* C4: the strategies are consulted in the order Expiration, Drift,
\* Emptiness, EmptyNodeConsolidation, MultiNodeConsolidation,
\* SingleNodeConsolidation; a strategy is consulted only when every earlier
\* one had no candidates or returned doNothing, and the command executed is
\* the delete or replace of the last strategy consulted.
C4_FixedOrderFirstActionableWins ==
  /\ Len(consulted) <= Len(ExpectedOrder)
  /\ \A k \in 1..Len(consulted) :
       /\ consulted[k] = ExpectedOrder[k]
       /\ \A j \in 1..(k - 1) : consulted[j] \notin acted
  /\ \A k \in 1..Len(executed) :
       /\ executed[k] = consulted[Len(consulted)]
       /\ executed[k] \in acted
       /\ cmd.action \in {actionDelete, actionReplace}

C4_Witness ==
  /\ consulted = ExpectedOrder
  /\ executed = << "SingleNodeConsolidation" >>
  /\ pc = "done"

\* C5: a tick hands at most one command to executeCommand, and once it has,
\* no strategy is consulted and no command computed in that tick.
C5_AtMostOneExecution ==
  /\ Len(executed) <= 1
  /\ Len(executed) = 1 => pc \notin {"select", "computed"}

C5_Witness ==
  /\ pc = "done" /\ Len(executed) = 1
  /\ result = "error" /\ execErr = "ready"

\* C6: SetConsolidated(true) is called exactly in the ticks in which every
\* strategy had no candidates or returned doNothing, as the last step of
\* the tick; a tick that executes, retries or fails never calls it.
C6_ConsolidatedOnlyAfterIdleSweep ==
  /\ pc # "done" => Ops("SetConsolidated") = {}
  /\ pc = "done" => ((Ops("SetConsolidated") # {}) <=> (acted = {}))
  /\ (pc = "done" /\ acted = {}) =>
       /\ consolidated
       /\ result = "requeueAfter"
       /\ consulted = ExpectedOrder

C6_Witness ==
  /\ pc = "done" /\ Ops("SetConsolidated") # {}
  /\ consolidated /\ acted = {}

SingleComputed ==
  /\ pc = "computed"
  /\ d <= Len(deprovisioners)
  /\ deprovisioners[d] = "SingleNodeConsolidation"

\* IsValid returned false for one of the candidates the loop looked at
SomeInvalid == \E j \in 1..evaluated : evals[j].kind = "invalid"

\* C7 as stated: when IsValid returns false for a candidate,
\* SingleNodeConsolidation returns retry whatever the later candidates give.
C7_InvalidAlwaysRetries ==
  (SingleComputed /\ SomeInvalid) => cmd.action = actionRetry

\* C7 amended: when IsValid returns false for a candidate,
\* SingleNodeConsolidation returns retry unless a later candidate gives a
\* delete or replace that passes validation, which it then returns; a retry
\* makes Reconcile requeue at once.
C7_InvalidRetriesUnlessLaterValid ==
  /\ (SingleComputed /\ SomeInvalid) =>
       IF \E j \in 1..evaluated : IsValid(evals[j])
       THEN cmd.action \in {actionDelete, actionReplace}
       ELSE cmd.action = actionRetry
  /\ (pc = "done" /\ cmd.action = actionRetry) => result = "requeue"

C7_Witness ==
  /\ SingleComputed /\ SomeInvalid
  /\ Len(evals) = 2 /\ evals[1].kind = "invalid"
  /\ cmd.action = actionRetry

\* C8: when errCandidateNodeDeleting is raised while the candidates are
\* selected or a consolidation is computed, the tick yields retry: Reconcile
\* requeues at once and neither returns an error nor concludes doNothing.
C8_CandidateDeletingRetries ==
  /\ (pc = "done" /\ raised) => result = "requeue"
  /\ (SingleComputed /\ \E j \in 1..evaluated : evals[j].kind = "candidateDeleting")
       => cmd.action = actionRetry

\* C9 as stated: once the cordon of a node fails nothing more is mutated: no
\* later node is patched, nothing is launched, marked or deleted.
C9_NoPatchAfterCordonFailure ==
  CordonFailed =>
    /\ Ops("Launch") = {} /\ Ops("Mark") = {} /\ Ops("Delete") = {}
    /\ \A j, k \in Ops("Cordon") :
         (Failure(log[j].res) /\ j < k) => log[k].res # "patched"

\* C9 amended: when the cordon of a node fails the executor still tries to
\* cordon every remaining node and then returns the error: nothing is
\* launched, marked, un-cordoned or deleted, and every node whose own cordon
\* did not fail is left cordoned.
C9_CordonFailureAborts ==
  CordonFailed =>
    /\ Ops("Launch") = {} /\ Ops("Mark") = {} /\ Ops("Delete") = {}
    /\ Ops("Uncordon") = {}
    /\ nodeNames = << >> /\ Removed \cap marked = {}
    /\ execErr \in {"none", "cordon"}
    /\ Returned =>
         /\ execErr = "cordon"
         /\ \A n \in Removed :
              CordonFailedFor(n) \/ node[n].unschedulable \/ ~node[n].exists

C9_Witness ==
  /\ Returned /\ execErr = "cordon"
  /\ \E j, k \in Ops("Cordon") :
       Failure(log[j].res) /\ j < k /\ log[k].res = "patched"

\* C10 as stated: whatever the action, a node is marked for deletion before
\* its Delete is issued.
C10_MarkedBeforeAnyDelete ==
  \A k \in Ops("Delete") :
    /\ log[k].node \in marked
    /\ \E j \in Ops("Mark") : j < k

\* C10 amended: when a replace command is executed, every old node is
\* marked for deletion before its Delete is issued and stays marked.
C10_MarkedBeforeDeleteOfReplace ==
  cmd.action = actionReplace =>
    \A k \in Ops("Delete") :
      /\ log[k].node \in marked
      /\ \E j \in Ops("Mark") : j < k
      /\ Ops("Unmark") = {}

C10_Witness ==
  /\ cmd.action = actionReplace
  /\ Cardinality(Ops("Delete")) = 2
  /\ execErr = "ok"

\* ------------------------------------------------ TerminatingNode event
Mutations == Ops("Cordon") \cup Ops("Launch") \cup Ops("Mark") \cup Ops("Delete")

\* C11 as stated: the TerminatingNode event of every node of the command is
\* published before the executor's first cordon, launch, mark or delete
C11_TerminatingNodeFirst ==
  \A k \in Mutations : \A n \in Removed :
     \E j \in Ops("TerminatingNode") : j < k /\ log[j].node = n

\* C11 amended: the event of a node is published inside the delete loop,
\* immediately before the Delete of that node and so after every cordon,
\* launch and mark of the command; a tick that returns after the delete loop
\* has published exactly one event per node, and a command that fails before
\* the loop has published none
C11_TerminatingNodeBeforeOwnDelete ==
  /\ \A k \in Ops("Delete") :
        k > 1 /\ log[k - 1] = Entry("TerminatingNode", log[k].node, "ok")
  /\ \A j \in Ops("TerminatingNode") :
        /\ j < Len(log) /\ log[j + 1].op = "Delete" /\ log[j + 1].node = log[j].node
        /\ \A k \in Ops("Cordon") \cup Ops("Launch") \cup Ops("Mark") : k < j
  /\ (pc = "done" /\ execErr = "ok") =>
        \A n \in Removed :
          Cardinality({ j \in Ops("TerminatingNode") : log[j].node = n }) = 1
  /\ (pc = "done" /\ execErr \notin {"none", "ok"}) => Ops("TerminatingNode") = {}

\* a replace command of two nodes went through: both events follow the mark
C11_Witness ==
  /\ pc = "done" /\ cmd.action = actionReplace /\ execErr = "ok"
  /\ Len(cmd.nodesToRemove) = 2
  /\ Cardinality(Ops("TerminatingNode")) = 2
  /\ Ops("Mark") # {}

\* ------------------------------------------------------- the delete loop
DeleteIssued(n) == \E k \in Ops("Delete") : log[k].node = n

ReplacementsReady ==
  \A r \in 1..cmd.replacementNodes : \E j \in Ops("Observed") : log[j].node = r

\* C12: once the delete loop is over a Delete has been issued for every node
\* of the command, whatever the Deletes before it returned; and executeCommand
\* returns success exactly when the replacements (if any) became ready and a
\* Delete was issued for every node.
C12_DeleteAllAndSuccessIffReady ==
  /\ (pc \in {"waitForDeletion", "done"} /\ Ops("Delete") # {}) =>
        \A n \in Removed : DeleteIssued(n)
  /\ (pc = "done" /\ executed # << >>) =>
        ((execErr = "ok") <=>
           (ReplacementsReady /\ \A n \in Removed : DeleteIssued(n)))

\* the same without a cancelled context
C12_UnlessCancelled == ctxDone \/ C12_DeleteAllAndSuccessIffReady

\* ---------------------------------------------------------- requeue hint
\* C16: a tick that executed a command with success or got a retry asks for
\* an immediate requeue; a tick asks for a requeue after pollingPeriod (10 s)
\* exactly when no strategy produced an actionable or a retry command; a tick
\* in which the selection, the computation or the execution failed returns
\* the error with no requeue hint.
C16_RequeueHint ==
  Returned =>
    /\ executed # << >> =>
          result = (IF execErr = "ok" THEN "requeue" ELSE "error")
    /\ (executed = << >> /\ cmd.action = actionRetry) => result = "requeue"
    /\ (executed = << >> /\ cmd.action # actionRetry /\ acted # {}) =>
          result = "error"
    /\ (result = "requeueAfter") <=> (acted = {})
    /\ RequeueHint(result) =
          CASE result = "requeue"      -> [Requeue |-> TRUE, RequeueAfter |-> 0]
            [] result = "requeueAfter" -> [Requeue |-> FALSE, RequeueAfter |-> 10]
            [] OTHER                   -> [Requeue |-> FALSE, RequeueAfter |-> 0]

\* a command was executed with success and the tick asks for a requeue
C16_Witness ==
  Returned /\ executed # << >> /\ execErr = "ok" /\ RequeueHint(result).Requeue

\* ----------------------------------------------------------------- retry
Untouched ==
  /\ node = [n \in OldNodes |-> [exists |-> TRUE, unschedulable |-> FALSE,
                                 deleting |-> FALSE]]
  /\ marked = {}
  /\ initialized = {}
  /\ nodeNames = << >>
  /\ log = << >>

\* C17: a retry command ends the tick with no mutation: Reconcile goes from
\* the command straight to its return with an immediate requeue, no node is
\* cordoned, marked or deleted, nothing is launched, the controller does not
\* set the consolidated flag, and no later strategy is consulted.
C17_RetryEndsTickUntouched ==
  cmd.action = actionRetry =>
    /\ pc \in {"computed", "done"}
    /\ pc = "done" => result = "requeue"
    /\ executed = << >> /\ execErr = "none"
    /\ Untouched
    /\ Len(consulted) = d /\ consulted[d] = deprovisioners[d]

\* a strategy before the last one returned retry and the tick is over
C17_Witness ==
  /\ Returned /\ cmd.action = actionRetry
  /\ d < Len(deprovisioners)

\* ------------------------------------------------- first valid candidate
ValidCandidates == { j \in 1..Len(evals) : IsValid(evals[j]) }

\* C18: SingleNodeConsolidation.ComputeCommand walks the sorted candidates in
\* order and returns the command of the first one whose consolidation is a
\* delete or a replace that passes IsValid: the candidates after it are not
\* looked at, and a delete or replace it returns has passed validation.  It
\* returns no such command only when no candidate has one, or when the
\* consolidated flag made it return before the loop.
C18_FirstValidCandidateWins ==
  SingleComputed =>
    IF cmd.action \in {actionDelete, actionReplace}
    THEN /\ ValidCandidates # {}
         /\ evaluated = Min(ValidCandidates)
         /\ cmd.nodesToRemove = << evals[evaluated].node >>
         /\ cmd.action = evals[evaluated].kind
    ELSE \/ evaluated = 0
         \/ ValidCandidates = {} /\ evaluated = Len(evals)

\* the second candidate is the first valid one, and it is the one returned
C18_Witness ==
  /\ SingleComputed
  /\ Len(evals) = 2 /\ ~IsValid(evals[1]) /\ IsValid(evals[2])
  /\ cmd.nodesToRemove = << evals[2].node >>

\* ----------------------------------------------------- consolidated flag
\* C19: while the consolidated flag is true SingleNodeConsolidation returns
\* doNothing without looking at a candidate, and a tick in which no strategy
\* acted, this one included, ends with the flag set.  (The flag only goes
\* from true to false during a tick, so a flag that is true once the command
\* is computed was true when ComputeCommand read it.)
C19_FlaggedClusterDoesNothing ==
  /\ (SingleComputed /\ consolidated) =>
        /\ cmd.action = actionDoNothing
        /\ evaluated = 0
        /\ cmd.nodesToRemove = << >>
  /\ (Returned /\ acted = {}) =>
        /\ consolidated
        /\ consulted = deprovisioners

\* the flag is set, a candidate has a valid command, and nothing was evaluated
C19_Witness ==
  /\ SingleComputed /\ consolidated
  /\ ValidCandidates # {}
  /\ evaluated = 0 /\ cmd.action = actionDoNothing

\* ------------------------------------------------ un-cordon on any error
\* C20: when the execution of a replace command returns an error, whatever
\* the failing step (cordon, LaunchMachines, count mismatch, readiness), every
\* node of the command that still exists, is not being deleted and whose
\* un-cordon did not fail is schedulable on return.
C20_ErrorLeavesNoNodeCordoned ==
  (Returned /\ cmd.action = actionReplace /\ execErr \notin {"none", "ok"}) =>
    \A n \in Removed : Uncordonable(n) => ~node[n].unschedulable

\* the same for the two failing steps that run the un-cordon
C20_AfterLaunchOrReadinessError ==
  execErr \in {"launch", "ready"} => C20_ErrorLeavesNoNodeCordoned

\* -------------------------------------------------------- waitForDeletion
\* C13: waitForDeletion always terminates.  It polls a node at most 60
\* times, it stops polling a node at the first poll that returns not-found,
\* and a node that never goes away costs only the logged timeout:
\* executeCommand returns success and the tick asks for a requeue.
C13_PollsBounded ==
  /\ attempt < 60
  /\ (pc = "waitForDeletion" /\ attempt > 0) => polled = "pending"
  /\ (Returned /\ Ops("Delete") # {}) => (execErr = "ok" /\ result = "requeue")

C13_WaitForDeletionTerminates == []C13_PollsBounded /\ <>Returned

\* the last node was still there at the 60th poll and the tick succeeded
C13_Witness ==
  /\ Returned /\ execErr = "ok" /\ polled = "pending"
  /\ node[cmd.nodesToRemove[Len(cmd.nodesToRemove)]].exists

\* 59 polls of a node have been made and the 60th is due
C13_LastPollDue == pc = "waitForDeletion" /\ attempt = 59

\* ------------------------------------------------------ dedupe of events
\* C14 as stated: a key published inside the dedupe window, however often,
\* has exactly one event downstream; and the events of distinct entities are
\* not coalesced: N of them with a reason that is not rate-limited give N.
C14_DedupeExactlyOne ==
  /\ \A key \in cache : emitted[key] = 1
  /\ calls["EvictPod"] = distinct["EvictPod"]

\* C14 amended: a key published inside the dedupe window, however often, has
\* at most one event downstream, and exactly one when its reason is not
\* rate-limited; the events of distinct entities are not coalesced.
C14_DedupeAtMostOne ==
  /\ \A key \in cache :
        /\ emitted[key] <= 1
        /\ ~RateLimited(key[1]) => emitted[key] = 1
  /\ \A key \in Keys \ cache : emitted[key] = 0
  /\ calls["EvictPod"] = distinct["EvictPod"]

\* one pod was published three times with one event, next to other pods
C14_Witness ==
  /\ << "EvictPod", 1 >> \in cache /\ emitted[<< "EvictPod", 1 >>] = 1
  /\ repeats = 2 /\ thisSecond = 0 /\ distinct["NominatePod"] = 0
  /\ distinct["EvictPod"] = 3 /\ calls["EvictPod"] = 3

\* --------------------------------------------------------- rate limiting
\* C15: NominatePod goes through a token bucket of 5 per second with a burst
\* of 10: of the events of one instant exactly the first 10 go downstream
\* and the others are dropped, and while no second is offered more than 5
\* events none is dropped.
C15_TokenBucket ==
  /\ ~elapsed => calls["NominatePod"] = Min({distinct["NominatePod"], 10})
  /\ (paced /\ thisSecond <= 5) => calls["NominatePod"] = distinct["NominatePod"]
  /\ calls["NominatePod"] <= distinct["NominatePod"]
  /\ tokens \in 0..10

\* twelve events in the first instant: ten went downstream
C15_Witness ==
  /\ ~elapsed /\ distinct["NominatePod"] = 12
  /\ calls["NominatePod"] = 10 /\ tokens = 0

\* three seconds of five events each: all fifteen would need more than
\* MaxNominations, so two seconds of five and two more
C15_Paced ==
  /\ elapsed /\ paced /\ thisSecond = 2
  /\ distinct["NominatePod"] = 12 /\ calls["NominatePod"] = 12

\* ------------------------------------------- no mark or delete on error
\* LaunchMachines returned no error and a number of names that is not the
\* number of replacements the command asks for
CountMismatch ==
  \E k \in Ops("Launch") :
     log[k].res = "ok" /\ log[k].node # cmd.replacementNodes

\* C21: when executeCommand returns an error no node of the command is
\* marked for deletion on return and no Delete was issued; and a count
\* mismatch of LaunchMachines is returned as an error before any mark and
\* any Delete.
C21_ErrorMarksAndDeletesNothing ==
  /\ (Returned /\ execErr \notin {"none", "ok"}) =>
        /\ Removed \cap marked = {}
        /\ Ops("Delete") = {}
        /\ result = "error"
  /\ CountMismatch =>
        /\ Ops("Mark") = {} /\ Ops("Delete") = {} /\ marked = {}
        /\ Returned /\ execErr = "count" /\ result = "error"

\* LaunchMachines returned one name for a command that asks for two
C21_Witness ==
  /\ Returned /\ CountMismatch
  /\ cmd.replacementNodes = 2
  /\ \E k \in Ops("Launch") : log[k].node = 1

\* ------------------------------------------------------------ cancellation
\* C22: when the reconcile context is cancelled before or during the
\* readiness wait of a replace command, a Delete of an old node is issued
\* only if every replacement node was observed with the initialized label; a
\* waiter the cancellation skipped makes the wait fail.
C22_CancelledWaitIsFailure ==
  (cmd.action = actionReplace /\ ctxDone) =>
    /\ Ops("Delete") # {} => ReplacementsReady
    /\ (pc \in {"delete", "waitForDeletion"} \/ (Returned /\ execErr = "ok"))
          => ReplacementsReady

\* ------------------------------------------------------ machine liveness
\* the latest call was given a set TTL, a machine that is not registered and
\* has a creation timestamp, and a clock strictly past creation plus TTL
Expired ==
  /\ lcall.ttl # NoTTL
  /\ lcall.registered # "True"
  /\ lcall.creation # 0
  /\ lcall.creation + lcall.ttl < lcall.now

Unregistered == lcall.ttl # NoTTL /\ lcall.registered # "True"

\* C23: Liveness.Reconcile issues the Delete of the machine exactly when the
\* TTL is set, the machine is not registered, its creation timestamp is not
\* zero and creation plus TTL is strictly before now; otherwise it leaves the
\* machine untouched.  A not-found of the Delete is not an error, and an
\* unregistered machine that is not expired is requeued after the TTL.
C23_DeletesOnlyExpiredUnregistered ==
  lcall.made =>
    /\ (lres.deleteErr # "none") <=> Expired
    /\ ~Expired => ~lres.touched
    /\ lres.touched => (lres.deleteErr = "nil" /\ machine.deleting)
    /\ lres.err <=> (lres.deleteErr = "error")
    /\ lres.requeueAfter = (IF Unregistered /\ ~Expired THEN lcall.ttl ELSE 0)
  /\ (machine.deleting => lcall.made)

\* the machine was gone when the expired machine was deleted: no error
C23_Witness ==
  /\ lcall.made /\ Expired
  /\ lres.deleteErr = "notFound" /\ ~lres.err

\* creation plus TTL is now: the machine is requeued, not deleted
C23_AtTheBoundary ==
  /\ lcall.made /\ lcall.creation # 0 /\ lcall.creation + lcall.ttl = lcall.now
  /\ lcall.registered = "absent"
  /\ lres.requeueAfter = lcall.ttl /\ lcall.ttl > 0 /\ ~lres.touched
====
